---- MODULE Spec2Model ----
(***************************************************************************)
(* Model of the Aida medical-document pipeline (src/main.py,               *)
(* src/processors.py, src/services.py, src/models.py, src/config.py).      *)
(*                                                                         *)
(* A Python str is modelled as a sequence of one-character strings, so     *)
(* that len(), strip(), lower(), slicing and the `in` substring test are   *)
(* computed as the interpreter computes them.  The two accented letters    *)
(* the code mentions are written as the tokens "a_grave" / "A_GRAVE" and   *)
(* "e_acute" / "E_ACUTE", each standing for one character.                 *)
(***************************************************************************)
EXTENDS Naturals, Integers, Sequences, FiniteSets, TLC

----------------------------------------------------------------------------
(* Python str primitives *)

Min(S) == CHOOSE x \in S : \A y \in S : x <= y

Max(S) == CHOOSE x \in S : \A y \in S : x >= y

\* str.isspace() on one character
IsSpace(c) == c \in {" ", "\n", "\t", "\r"}

\* str.strip(): drop leading and trailing whitespace, keep interior whitespace
strip(s) ==
    LET keep == {i \in 1..Len(s) : ~IsSpace(s[i])}
    IN  IF keep = {} THEN <<>> ELSE SubSeq(s, Min(keep), Max(keep))

UPPER == <<"A", "B", "C", "D", "E", "F", "G", "H", "I", "J", "K", "L", "M", "N", "O", "P",
           "Q", "R", "S", "T", "U", "V", "W", "X", "Y", "Z", "A_GRAVE", "E_ACUTE">>

LOWER == <<"a", "b", "c", "d", "e", "f", "g", "h", "i", "j", "k", "l", "m", "n", "o", "p",
           "q", "r", "s", "t", "u", "v", "w", "x", "y", "z", "a_grave", "e_acute">>

LowerChar(c) ==
    IF \E i \in 1..Len(UPPER) : UPPER[i] = c
    THEN LOWER[CHOOSE i \in 1..Len(UPPER) : UPPER[i] = c]
    ELSE c

\* str.lower()
lower(s) == [i \in 1..Len(s) |-> LowerChar(s[i])]

\* `sub in s`
Contains(s, sub) ==
    \E i \in 1..(Len(s) - Len(sub) + 1) : SubSeq(s, i, i + Len(sub) - 1) = sub

\* s[:n]
Prefix(s, n) == SubSeq(s, 1, IF Len(s) < n THEN Len(s) ELSE n)

\* str.rfind(c), 0-based, -1 when absent
rfind(s, c) ==
    LET at == {i \in 1..Len(s) : s[i] = c}
    IN  IF at = {} THEN -1 ELSE Max(at) - 1

\* os.path.basename (posixpath): everything after the last "/"
basename(p) == SubSeq(p, rfind(p, "/") + 2, Len(p))

\* os.path.splitext(p)[1] (genericpath._splitext): the suffix from the last dot
\* of the last component, unless that component has only leading dots before it
splitext_ext(p) ==
    LET sepIndex == rfind(p, "/")
        dotIndex == rfind(p, ".")
    IN  IF dotIndex > sepIndex
           /\ \E k \in (sepIndex + 1)..(dotIndex - 1) : p[k + 1] # "."
        THEN SubSeq(p, dotIndex + 1, Len(p))
        ELSE <<>>

----------------------------------------------------------------------------
(* AIExtractor._detect_language *)

french_indicators ==
    << <<"l", "e">>,
       <<"l", "a">>,
       <<"l", "e", "s">>,
       <<"d", "u">>,
       <<"d", "e">>,
       <<"a_grave">>,
       <<"e", "s", "t">>,
       <<"e", "t">>,
       <<"u", "n">>,
       <<"u", "n", "e">>,
       <<"d", "e", "s">> >>

french_count(text) ==
    LET text_lower == lower(text)
    IN  Cardinality({i \in 1..Len(french_indicators) :
                       Contains(text_lower, <<" ">> \o french_indicators[i] \o <<" ">>)})

detect_language_ge(text) == IF french_count(text) >= 3 THEN "fr" ELSE "en"

detect_language(text) == IF french_count(text) > 3 THEN "fr" ELSE "en"

----------------------------------------------------------------------------
(* Python values and outcomes *)

\* None
PyNone == [t |-> "null"]

\* not assigned yet
Unset == [t |-> "unset"]

\* a str value (also used for a JSON string)
PyStr(s) == [t |-> "str", v |-> s]

\* a JSON number, kept by its digits
PyNum(s) == [t |-> "num", v |-> s]

\* a list (JSON array)
PyList == [t |-> "list"]

\* a dict (JSON object): a function from keys to values
PyDict(f) == [t |-> "dict", items |-> f]

\* a call that returned v
Ok(v) == [ok |-> TRUE, value |-> v]

\* a call that raised an exception of class type, whose str() is message
Raise(type, message) == [ok |-> FALSE, type |-> type, message |-> message]

----------------------------------------------------------------------------
(* Responses of the text-generation service (the environment) *)

msg_service == <<"C", "o", "n", "n", "e", "c", "t", "i", "o", "n", " ", "e", "r", "r", "o",
    "r", ".">>

msg_timeout == <<"R", "e", "q", "u", "e", "s", "t", " ", "t", "i", "m", "e", "d", " ", "o",
    "u", "t", ".">>

msg_payload == <<"b", "a", "d", " ", "p", "a", "y", "l", "o", "a", "d">>

\* the service call raised
ServiceError == [kind |-> "APIError"]

ServiceTimeout == [kind |-> "APITimeoutError"]

\* the call returned, with message.content None
ContentNone == [kind |-> "ok", content |-> [c |-> "none"]]

\* the call returned text that is not valid JSON
ContentBadJson == [kind |-> "ok", content |-> [c |-> "bad_json"]]

\* the call returned text that is valid JSON denoting the value v
ContentJson(v) == [kind |-> "ok", content |-> [c |-> "json", value |-> v]]

\* the call returned the free text s
ContentText(s) == [kind |-> "ok", content |-> [c |-> "text", s |-> s]]

\* no call made yet
NoResponse == [kind |-> "unset"]

v_name == <<"J", "e", "a", "n", " ", "D", "u", "p", "o", "n", "t">>

v_dob == <<"0", "1", "/", "0", "1", "/", "1", "9", "8", "0">>

v_address == <<"1", " ", "r", "u", "e", " ", "A">>

v_bp == <<"1", "2", "0", "/", "8", "0", " ", "m", "m", "H", "g">>

v_hr == <<"7", "5">>

PatientResponses ==
    { ServiceError, ServiceTimeout, ContentNone, ContentBadJson,
      ContentJson(PyList),
      ContentJson(PyDict([name |-> PyStr(v_name), date_of_birth |-> PyStr(v_dob),
                          address |-> PyStr(v_address)])),
      ContentJson(PyDict([name |-> PyStr(<<>>), address |-> PyNone, age |-> PyNum(v_hr)])) }

MedicalResponses ==
    { ServiceError, ServiceTimeout, ContentNone, ContentBadJson,
      ContentJson(PyList),
      ContentJson(PyDict([BloodPressure |-> PyStr(v_bp)])),
      ContentJson(PyDict([HeartRate |-> PyNum(v_hr)])) }

c_lab_nl == <<"L", "a", "b", " ", "R", "e", "p", "o", "r", "t", "\n">>

c_verbose == <<"C", "a", "t", "e", "g", "o", "r", "y", ":", " ", "O", "t", "h", "e", "r", ".">>

c_summary == <<" ", "F", "i", "n", "d", "i", "n", "g", "s", " ", "a", "r", "e", " ", "n", "o",
    "r", "m", "a", "l", ".", "\n">>

CategoryResponses ==
    { ServiceError, ServiceTimeout, ContentNone,
      ContentText(c_lab_nl), ContentText(c_verbose) }

SummaryResponses ==
    { ServiceError, ServiceTimeout, ContentNone, ContentText(c_summary) }

----------------------------------------------------------------------------
(* AIExtractor: the four extraction operations *)

LabReport == <<"L", "a", "b", " ", "R", "e", "p", "o", "r", "t">>

Prescription == <<"P", "r", "e", "s", "c", "r", "i", "p", "t", "i", "o", "n">>

MedicalRecord == <<"M", "e", "d", "i", "c", "a", "l", " ", "R", "e", "c", "o", "r", "d">>

ImagingReport == <<"I", "m", "a", "g", "i", "n", "g", " ", "R", "e", "p", "o", "r", "t">>

ConsultationNote == <<"C", "o", "n", "s", "u", "l", "t", "a", "t", "i", "o", "n", " ", "N",
    "o", "t", "e">>

Other == <<"O", "t", "h", "e", "r">>

RapportDeLaboratoire == <<"R", "a", "p", "p", "o", "r", "t", " ", "d", "e", " ", "L", "a", "b",
    "o", "r", "a", "t", "o", "i", "r", "e">>

Ordonnance == <<"O", "r", "d", "o", "n", "n", "a", "n", "c", "e">>

DossierMedical == <<"D", "o", "s", "s", "i", "e", "r", " ", "M", "e_acute", "d", "i", "c", "a",
    "l">>

RapportDImagerie == <<"R", "a", "p", "p", "o", "r", "t", " ", "d", "'", "I", "m", "a", "g",
    "e", "r", "i", "e">>

NoteDeConsultation == <<"N", "o", "t", "e", " ", "d", "e", " ", "C", "o", "n", "s", "u", "l",
    "t", "a", "t", "i", "o", "n">>

Autre == <<"A", "u", "t", "r", "e">>

SummaryFailedEn == <<"S", "u", "m", "m", "a", "r", "y", " ", "g", "e", "n", "e", "r", "a", "t",
    "i", "o", "n", " ", "f", "a", "i", "l", "e", "d", ".">>

SummaryFailedFr == <<"E_ACUTE", "c", "h", "e", "c", " ", "d", "e", " ", "l", "a", " ", "g",
    "e_acute", "n", "e_acute", "r", "a", "t", "i", "o", "n", " ", "d", "u", " ", "r",
    "e_acute", "s", "u", "m", "e_acute", ".">>

\* the six candidate labels each prompt lists
CategoryLabels(lang) ==
    IF lang = "fr"
    THEN {RapportDeLaboratoire, Ordonnance, DossierMedical, RapportDImagerie,
          NoteDeConsultation, Autre}
    ELSE {LabReport, Prescription, MedicalRecord, ImagingReport, ConsultationNote, Other}

\* self.client.chat.completions.create(...): raises, or returns the response
create(r) ==
    CASE r.kind = "APIError" -> Raise("APIError", msg_service)
      [] r.kind = "APITimeoutError" -> Raise("APITimeoutError", msg_timeout)
      [] OTHER -> Ok(r.content)

\* json.loads(response.choices[0].message.content)
json_loads(content) ==
    CASE content.c = "none" -> Raise("TypeError", msg_payload)
      [] content.c = "json" -> Ok(content.value)
      [] OTHER -> Raise("JSONDecodeError", msg_payload)

\* data.get(key): an AttributeError unless data is a dict
dict_get(data, key) ==
    IF data.t # "dict" THEN Raise("AttributeError", msg_payload)
    ELSE IF key \in DOMAIN data.items THEN Ok(data.items[key]) ELSE Ok(PyNone)

\* response.choices[0].message.content.strip()
content_strip(content) ==
    IF content.c = "text" THEN Ok(strip(content.s))
    ELSE Raise("AttributeError", msg_payload)

PatientInfo(name, date_of_birth, address) ==
    [name |-> name, date_of_birth |-> date_of_birth, address |-> address]

\* try: ... except Exception: return fallback
TryExceptNarrow(body, fallback) ==
    IF body.ok \/ body.type # "JSONDecodeError" THEN body ELSE Ok(fallback)

TryExcept(body, fallback) == IF body.ok THEN body ELSE Ok(fallback)

extract_patient_info(text, r) ==
    LET response == create(r)
        data == json_loads(response.value)
        body == IF ~response.ok THEN response
                ELSE IF ~data.ok THEN data
                ELSE IF ~dict_get(data.value, "name").ok THEN dict_get(data.value, "name")
                ELSE Ok(PatientInfo(dict_get(data.value, "name").value,
                                    dict_get(data.value, "date_of_birth").value,
                                    dict_get(data.value, "address").value))
    IN  TryExcept(body, PatientInfo(PyNone, PyNone, PyNone))

extract_medical_values(text, r) ==
    LET response == create(r)
        body == IF ~response.ok THEN response ELSE json_loads(response.value)
    IN  TryExcept(body, PyDict(<<>>))

CategoryDefault(lang) == IF lang = "en" THEN Other ELSE Autre

categorize_document(text, r) ==
    LET lang == detect_language(text)
        response == create(r)
        body == IF ~response.ok THEN response ELSE content_strip(response.value)
    IN  TryExcept(body, CategoryDefault(lang))

generate_summary(text, r) ==
    LET lang == detect_language(text)
        error_msg == IF lang = "fr" THEN SummaryFailedFr ELSE SummaryFailedEn
        response == create(r)
        body == IF ~response.ok THEN response ELSE content_strip(response.value)
    IN  TryExcept(body, error_msg)

----------------------------------------------------------------------------
(* AIExtractor: the part of the text each prompt embeds *)

\* Config.MAX_TEXT_LENGTH
MAX_TEXT_LENGTH == 3000

\* the literal bound of the slice in categorize_document
CATEGORIZE_TEXT_LENGTH == 1000

\* {text[:Config.MAX_TEXT_LENGTH]} in either prompt of extract_patient_info
extract_patient_info_text(text) ==
    IF detect_language(text) = "fr"
    THEN Prefix(text, MAX_TEXT_LENGTH)
    ELSE Prefix(text, MAX_TEXT_LENGTH)

\* {text[:Config.MAX_TEXT_LENGTH]} in either prompt of extract_medical_values
extract_medical_values_text(text) ==
    IF detect_language(text) = "fr"
    THEN Prefix(text, MAX_TEXT_LENGTH)
    ELSE Prefix(text, MAX_TEXT_LENGTH)

\* {text[:1000]} in either prompt of categorize_document
categorize_document_text(text) ==
    IF detect_language(text) = "fr"
    THEN Prefix(text, CATEGORIZE_TEXT_LENGTH)
    ELSE Prefix(text, CATEGORIZE_TEXT_LENGTH)

\* {text[:Config.MAX_TEXT_LENGTH]} in either prompt of generate_summary
generate_summary_text(text) ==
    IF detect_language(text) = "fr"
    THEN Prefix(text, MAX_TEXT_LENGTH)
    ELSE Prefix(text, MAX_TEXT_LENGTH)

\* the part of text the prompt of operation op embeds
embedded_text(op, text) ==
    CASE op = "extract_patient_info" -> extract_patient_info_text(text)
      [] op = "extract_medical_values" -> extract_medical_values_text(text)
      [] op = "categorize_document" -> categorize_document_text(text)
      [] op = "generate_summary" -> generate_summary_text(text)

\* no call made yet
NoRequest == [kind |-> "unset"]

\* operation op called with text: the argument, and the part its prompt embeds
Request(op, text) == [kind |-> "sent", text |-> text, embedded |-> embedded_text(op, text)]

----------------------------------------------------------------------------
(* Inputs: file paths, file contents, OCR and vision outcomes *)

path_pdf == <<"/", "u", "p", "/", "a", ".", "p", "d", "f">>

path_PDF == <<"B", ".", "P", "D", "F">>

path_docx == <<"c", ".", "d", "o", "c", "x">>

path_doc == <<"d", ".", "d", "o", "c">>

path_jpg == <<"s", ".", "j", "p", "g">>

path_JPEG == <<"/", "u", "p", "/", "t", ".", "J", "P", "E", "G">>

path_png == <<"u", ".", "p", "n", "g">>

path_txt == <<"/", "u", "p", "/", "n", ".", "t", "x", "t">>

path_noext == <<"/", "v", "1", ".", "2", "/", "n", "o", "t", "e", "s">>

path_hidden == <<".", "p", "d", "f">>

path_gz == <<"x", ".", "p", "d", "f", ".", "g", "z">>

Paths ==
    { path_pdf, path_PDF, path_docx, path_doc, path_jpg, path_JPEG,
      path_png, path_txt, path_noext, path_hidden, path_gz }

ext_pdf == <<".", "p", "d", "f">>

ext_docx == <<".", "d", "o", "c", "x">>

ext_doc == <<".", "d", "o", "c">>

ext_jpg == <<".", "j", "p", "g">>

ext_jpeg == <<".", "j", "p", "e", "g">>

ext_png == <<".", "p", "n", "g">>

t_blank == <<" ", "\n">>

t_nine == <<" ", "1", "2", "3", "4", "5", "6", "7", "8", "9">>

t_en1 == <<"P", "a", "t", "i", "e", "n", "t", " ", "J", "o", "h", "n">>

t_en2 == <<"B", "P", " ", "1", "2", "0", "/", "8", "0", " ">>

t_fr == <<"L", "e", " ", "p", "a", "t", "i", "e", "n", "t", " ", "e", "s", "t", " ", "a_grave",
    " ", "l", "a", " ", "m", "a", "i", "s", "o", "n", " ", "e", "t", " ", "l", "e", " ", "m",
    "e", "d", "e", "c", "i", "n", " ", "d", "e", " ", "g", "a", "r", "d", "e">>

t_sparse1 == <<"a", " ", "b", " ", "c">>

t_sparse2 == <<"d", " ", "e", " ", "f">>

t_bp == <<"B", "P">>

o_19 == <<"D", "r", " ", "S", "m", "i", "t", "h", " ", "0", "1", "/", "0", "2", "/", "1", "9",
    "8", "0">>

o_20 == <<" ", "P", "a", "t", "i", "e", "n", "t", ":", " ", "J", "a", "n", "e", " ", "D", "o",
    "e", " ", "1", "2", "\n">>

o_50 == <<"N", "a", "m", "e", ":", " ", "J", "a", "n", "e", " ", "D", "o", "e", " ", "D", "O",
    "B", ":", " ", "0", "1", "/", "0", "2", "/", "1", "9", "8", "0", " ", "B", "P", ":", " ",
    "1", "2", "0", "/", "8", "0", " ", "H", "R", ":", " ", "7", "5", "/", "m">>

o_51 == <<"N", "a", "m", "e", ":", " ", "J", "a", "n", "e", " ", "D", "o", "e", " ", "D", "O",
    "B", ":", " ", "0", "1", "/", "0", "2", "/", "1", "9", "8", "0", " ", "B", "P", ":", " ",
    "1", "2", "0", "/", "8", "0", " ", "H", "R", ":", " ", "7", "5", "b", "p", "m", "\n">>

v_nine == <<" ", "J", "e", "a", "n", " ", "1", "9", "8", "0", " ">>

v_ten == <<"B", "P", ":", " ", "1", "2", "0", "/", "8", "0">>

msg_not_found == <<"F", "i", "l", "e", " ", "n", "o", "t", " ", "f", "o", "u", "n", "d", ":",
    " ">>

msg_unsupported == <<"U", "n", "s", "u", "p", "p", "o", "r", "t", "e", "d", " ", "f", "i", "l",
    "e", " ", "t", "y", "p", "e", ":", " ">>

msg_no_text == <<"N", "o", " ", "t", "e", "x", "t", " ", "e", "x", "t", "r", "a", "c", "t",
    "e", "d", " ", "f", "r", "o", "m", " ", "d", "o", "c", "u", "m", "e", "n", "t">>

msg_library == <<"c", "a", "n", "n", "o", "t", " ", "r", "e", "a", "d", " ", "f", "i", "l",
    "e">>

Today == <<"0", "5", "/", "1", "1", "/", "2", "0", "2", "6">>

\* a file the library cannot open or parse
Unreadable == [readable |-> FALSE]

\* what PyPDF2 reads from a PDF: the text of each page, in page order
PdfFile(pages) == [readable |-> TRUE, pages |-> pages]

\* what python-docx reads: the paragraphs, and the table cells in row-major order
DocxFile(paragraphs, cells) == [readable |-> TRUE, paragraphs |-> paragraphs, cells |-> cells]

PdfFiles ==
    { Unreadable, PdfFile(<<>>), PdfFile(<<t_blank, <<>> >>), PdfFile(<<t_nine>>),
      PdfFile(<<t_en1, t_en2>>), PdfFile(<<t_fr>>), PdfFile(<<t_sparse1, t_sparse2>>) }

DocxFiles ==
    { Unreadable, DocxFile(<<t_blank>>, <<>>), DocxFile(<<t_en1>>, <<t_bp, t_en2>>),
      DocxFile(<<t_fr>>, <<>>) }

\* an outcome of pytesseract.image_to_string
OcrRaise == [kind |-> "raise"]

OcrText(s) == [kind |-> "text", s |-> s]

OcrOutcomes == { OcrRaise, OcrText(o_19), OcrText(o_20), OcrText(o_50), OcrText(o_51) }

\* an outcome of _extract_with_vision: the image file cannot be read, or a service response
VisionOutcomes ==
    { [kind |-> "open_error"], ServiceError, ContentNone,
      ContentText(v_nine), ContentText(v_ten) }

\* an image file: whether PIL opens it, what each image_to_string call yields on it,
\* and what the vision extraction yields on it
ImageFiles ==
    [opened : BOOLEAN, combined : OcrOutcomes, eng : OcrOutcomes, default : OcrOutcomes,
     vision : VisionOutcomes]

----------------------------------------------------------------------------
(* Format adapters (src/processors.py) *)

RECURSIVE JoinLines(_)
\* text += part + "\n" for each part
JoinLines(parts) ==
    IF parts = <<>> THEN <<>> ELSE Head(parts) \o <<"\n">> \o JoinLines(Tail(parts))

PDFProcessor_extract_text(file) ==
    IF ~file.readable THEN Raise("PdfReadError", msg_library)
    ELSE Ok(strip(JoinLines(file.pages)))

PDFProcessor_get_page_count(file) ==
    IF ~file.readable THEN Raise("PdfReadError", msg_library) ELSE Ok(Len(file.pages))

DOCXProcessor_extract_text(file) ==
    IF ~file.readable THEN Raise("PackageNotFoundError", msg_library)
    ELSE Ok(strip(JoinLines(file.paragraphs) \o JoinLines(file.cells)))

DOCXProcessor_get_page_count(file) ==
    IF ~file.readable THEN Raise("PackageNotFoundError", msg_library)
    ELSE Ok(IF Len(file.paragraphs) \div 30 > 1 THEN Len(file.paragraphs) \div 30 ELSE 1)

ImageProcessor_get_page_count(file) == Ok(1)

get_page_count(processor, file) ==
    CASE processor = "pdf" -> PDFProcessor_get_page_count(file)
      [] processor = "docx" -> DOCXProcessor_get_page_count(file)
      [] OTHER -> ImageProcessor_get_page_count(file)

\* ImageProcessor.extract_text: local OCR text is accepted when longer than 50
AcceptLocalGt51(tesseract_text) == Len(strip(tesseract_text)) > 51

AcceptLocal(tesseract_text) == Len(strip(tesseract_text)) > 50

\* the English retry also taken at exactly 20 characters
RetryEnglishLe20(text) == Len(strip(text)) <= 20

\* _extract_with_tesseract: the combined-pack result is retried with English only
RetryEnglish(text) == Len(strip(text)) < 20

\* _extract_with_vision, given the outcome of reading the file and calling the service
extract_with_vision(v) ==
    IF v.kind = "open_error" THEN Raise("OSError", msg_library)
    ELSE LET response == create(v)
         IN  IF ~response.ok THEN response ELSE content_strip(response.value)

\* _extract_with_tesseract: its outcome, the calls it made, in order, and what
\* each image_to_string call gave, in order
extract_with_tesseract(file) ==
    LET c_open == <<"Image.open">>
        c_combined == c_open \o <<"image_to_string(fra+eng)">>
        c_eng == c_combined \o <<"image_to_string(eng)">>
        \* except Exception: text = pytesseract.image_to_string(image)
        Default(made, got) ==
            [out |-> IF file.default.kind = "raise"
                     THEN Raise("TesseractError", msg_library)
                     ELSE Ok(strip(file.default.s)),
             calls |-> made \o <<"image_to_string()">>,
             texts |-> got \o <<file.default>>]
    IN  IF ~file.opened
        THEN [out |-> Raise("OSError", msg_library), calls |-> c_open, texts |-> <<>>]
        ELSE IF file.combined.kind = "raise" THEN Default(c_combined, <<file.combined>>)
        ELSE IF RetryEnglish(file.combined.s)
             THEN IF file.eng.kind = "raise"
                  THEN Default(c_eng, <<file.combined, file.eng>>)
                  ELSE [out |-> Ok(strip(file.eng.s)), calls |-> c_eng,
                        texts |-> <<file.combined, file.eng>>]
             ELSE [out |-> Ok(strip(file.combined.s)), calls |-> c_combined,
                   texts |-> <<file.combined>>]

\* if self.openai_client:
UseVisionAlways(client) == TRUE

UseVision(client) == client

\* extract_text falling back on the rejected local text when the vision
\* extraction fails or there is no client
ImageProcessor_extract_text_keep_local(client, file) ==
    LET local == extract_with_tesseract(file)
        tess == IF local.out.ok THEN PyStr(local.out.value) ELSE Unset
        kept == IF local.out.ok THEN Ok(local.out.value) ELSE Ok(<<>>)
    IN  IF local.out.ok /\ AcceptLocal(local.out.value)
        THEN [out |-> Ok(local.out.value), calls |-> local.calls, tesseract_text |-> tess,
              texts |-> local.texts, vision |-> Unset]
        ELSE IF UseVision(client)
        THEN [out |-> IF extract_with_vision(file.vision).ok
                      THEN extract_with_vision(file.vision) ELSE kept,
              calls |-> local.calls \o <<"_extract_with_vision">>, tesseract_text |-> tess,
              texts |-> local.texts, vision |-> file.vision]
        ELSE [out |-> kept, calls |-> local.calls, tesseract_text |-> tess,
              texts |-> local.texts, vision |-> Unset]

\* ImageProcessor.extract_text: the text returned, the calls made, the text
\* _extract_with_tesseract gave (Unset when it raised), what each image_to_string
\* call gave, and what the vision extraction was answered (Unset when not run)
ImageProcessor_extract_text(client, file) ==
    LET local == extract_with_tesseract(file)
        tess == IF local.out.ok THEN PyStr(local.out.value) ELSE Unset
    IN  IF local.out.ok /\ AcceptLocal(local.out.value)
        THEN [out |-> Ok(local.out.value), calls |-> local.calls, tesseract_text |-> tess,
              texts |-> local.texts, vision |-> Unset]
        ELSE IF UseVision(client)
        THEN [out |-> IF extract_with_vision(file.vision).ok
                      THEN extract_with_vision(file.vision) ELSE Ok(<<>>),
              calls |-> local.calls \o <<"_extract_with_vision">>, tesseract_text |-> tess,
              texts |-> local.texts, vision |-> file.vision]
        ELSE [out |-> Ok(<<>>), calls |-> local.calls, tesseract_text |-> tess,
              texts |-> local.texts, vision |-> Unset]

ProcessorFactory_create_nolower(file_path) ==
    LET ext == splitext_ext(file_path)
    IN  IF ext = ext_pdf THEN Ok("pdf")
        ELSE IF ext \in {ext_docx, ext_doc} THEN Ok("docx")
        ELSE IF ext \in {ext_jpg, ext_jpeg, ext_png} THEN Ok("image")
        ELSE Raise("ValueError", msg_unsupported \o ext)

ProcessorFactory_create(file_path) ==
    LET ext == lower(splitext_ext(file_path))
    IN  IF ext = ext_pdf THEN Ok("pdf")
        ELSE IF ext \in {ext_docx, ext_doc} THEN Ok("docx")
        ELSE IF ext \in {ext_jpg, ext_jpeg, ext_png} THEN Ok("image")
        ELSE Raise("ValueError", msg_unsupported \o ext)

----------------------------------------------------------------------------
(* State *)

VARIABLES
    pc,              \* position of the running call
    entry,           \* the public operation that was called
    file_path,       \* its file_path argument
    processor,       \* the adapter ProcessorFactory.create returned ("none" before)
    openai_client,   \* whether ImageProcessor.openai_client is set
    calls,           \* the calls made so far, in order
    doc,             \* the document the PDF or DOCX reader parsed from the file
    tesseract_text,  \* the result of _extract_with_tesseract
    ocr_texts,       \* what each pytesseract.image_to_string call gave, in order
    vision_response, \* what _extract_with_vision was answered (Unset when not run)
    raw_text,        \* the adapter's extract_text result
    requests,        \* the text each extraction operation was given, and the part it sent
    responses,       \* the service response each extraction operation received
    patient_info, medical_values, category, summary,
    raised,          \* the exception DocumentProcessor.process raised
    result,          \* what analyze_document returned
    words, lead, sep, trail,   \* the text given to _detect_language: words, padding, separator
    lang             \* and its answer

pipeVars == <<pc, entry, file_path, processor, openai_client, calls, doc, tesseract_text,
              ocr_texts, vision_response, raw_text, requests, responses, patient_info,
              medical_values, category, summary, raised, result>>

\* what the image adapter recorded
imageVars == <<ocr_texts, vision_response>>

langVars == <<words, lead, sep, trail, lang>>

vars == <<pipeVars, langVars>>

ExtractionOps ==
    {"extract_patient_info", "extract_medical_values", "categorize_document", "generate_summary"}

PipeInit ==
    /\ pc = "idle"
    /\ entry = "none"
    /\ file_path = <<>>
    /\ processor = "none"
    /\ openai_client = FALSE
    /\ calls = <<>>
    /\ doc = Unset
    /\ tesseract_text = Unset
    /\ ocr_texts = <<>>
    /\ vision_response = Unset
    /\ raw_text = Unset
    /\ requests = [op \in ExtractionOps |-> NoRequest]
    /\ responses = [op \in ExtractionOps |-> NoResponse]
    /\ patient_info = Unset
    /\ medical_values = Unset
    /\ category = Unset
    /\ summary = Unset
    /\ raised = Unset
    /\ result = Unset

LangIdle == words = <<>> /\ lead = <<>> /\ sep = <<>> /\ trail = <<>> /\ lang = "idle"

Init == PipeInit /\ LangIdle

----------------------------------------------------------------------------
(* AidaAIAssistant.analyze_document and DocumentProcessor.process *)

\* the except branch of analyze_document
ErrorResult(e, path) == [error |-> TRUE, message |-> e.message, file_name |-> basename(path)]

\* ProcessedDocument.to_dict()
to_dict(metadata, p_info, values, summ, text) ==
    [metadata |-> metadata, patient_info |-> p_info, extracted_values |-> values,
     summary |-> summ, raw_text |-> text]

DocumentMetadata(file_type, cat, creation_date, num_pages, file_name) ==
    [file_type |-> file_type, category |-> cat, creation_date |-> creation_date,
     num_pages |-> num_pages, file_name |-> file_name]

AbortNarrow(e) ==
    /\ pc' = "done"
    /\ raised' = e
    /\ result' = IF entry = "analyze_document" /\ e.type \in {"FileNotFoundError", "ValueError"}
                 THEN ErrorResult(e, file_path) ELSE Unset

\* an exception leaves process(); analyze_document turns it into the error result
Abort(e) ==
    /\ pc' = "done"
    /\ raised' = e
    /\ result' = IF entry = "analyze_document" THEN ErrorResult(e, file_path) ELSE Unset

\* the length gate of process(): too little text
GateRejectsLt9(text) == Len(strip(text)) < 9

GateRejects(text) == Len(strip(text)) < 10

\* extract_text returns text to its caller
Return(text) ==
    /\ raw_text' = PyStr(text)
    /\ pc' = IF entry = "analyze_document" THEN "gate" ELSE "done"

\* the image paths given to a directly constructed ImageProcessor
DirectPaths == {path_jpg}

\* AidaAIAssistant.analyze_document(file_path) is called
AnalyzeDocument ==
    /\ pc = "idle"
    /\ \E path \in Paths : file_path' = path
    /\ entry' = "analyze_document"
    /\ openai_client' = TRUE
    /\ pc' = "validate"
    /\ UNCHANGED <<processor, calls, doc, tesseract_text, raw_text, responses, patient_info,
                   medical_values, category, summary, raised, result,
                   requests, imageVars, langVars>>

\* ImageProcessor(openai_client).extract_text(file_path) is called on its own
ImageExtractText ==
    /\ pc = "idle"
    /\ \E path \in DirectPaths : file_path' = path
    /\ \E client \in BOOLEAN : openai_client' = client
    /\ entry' = "ImageProcessor.extract_text"
    /\ processor' = "image"
    /\ pc' = "extract_text"
    /\ UNCHANGED <<calls, doc, tesseract_text, raw_text, responses, patient_info,
                   medical_values, category, summary, raised, result,
                   requests, imageVars, langVars>>

\* if not os.path.exists(file_path): raise FileNotFoundError
Validate ==
    /\ pc = "validate"
    /\ calls' = Append(calls, "os.path.exists")
    /\ \E exists \in BOOLEAN :
         IF exists
         THEN pc' = "create" /\ UNCHANGED <<raised, result>>
         ELSE Abort(Raise("FileNotFoundError", msg_not_found \o file_path))
    /\ UNCHANGED <<entry, file_path, processor, openai_client, doc, tesseract_text, raw_text,
                   responses, patient_info, medical_values, category, summary,
                   requests, imageVars, langVars>>

\* processor = ProcessorFactory.create(file_path, self.client)
Create ==
    /\ pc = "create"
    /\ calls' = Append(calls, "ProcessorFactory.create")
    /\ LET made == ProcessorFactory_create(file_path)
       IN  IF made.ok
           THEN /\ processor' = made.value
                /\ pc' = "extract_text"
                /\ UNCHANGED <<raised, result>>
           ELSE Abort(made) /\ UNCHANGED processor
    /\ UNCHANGED <<entry, file_path, openai_client, doc, tesseract_text, raw_text,
                   responses, patient_info, medical_values, category, summary,
                   requests, imageVars, langVars>>

\* the files an adapter may be given
FilesFor(proc) ==
    CASE proc = "pdf" -> PdfFiles
      [] proc = "docx" -> DocxFiles
      [] OTHER -> ImageFiles

\* the adapter's extract_text on a file: the text or the exception, the calls made
extract_text(proc, client, file) ==
    CASE proc = "pdf" ->
           [out |-> PDFProcessor_extract_text(file), calls |-> <<>>, tesseract_text |-> Unset,
            texts |-> <<>>, vision |-> Unset]
      [] proc = "docx" ->
           [out |-> DOCXProcessor_extract_text(file), calls |-> <<>>, tesseract_text |-> Unset,
            texts |-> <<>>, vision |-> Unset]
      [] OTHER -> ImageProcessor_extract_text(client, file)

\* raw_text = processor.extract_text(file_path)
ExtractText ==
    /\ pc = "extract_text"
    /\ \E file \in FilesFor(processor) :
         LET got == extract_text(processor, openai_client, file)
         IN  /\ calls' = calls \o <<"extract_text">> \o got.calls
             /\ tesseract_text' = got.tesseract_text
             /\ ocr_texts' = got.texts
             /\ vision_response' = got.vision
             /\ doc' = IF processor = "image" THEN Unset ELSE file
             /\ IF got.out.ok
                THEN Return(got.out.value) /\ UNCHANGED <<raised, result>>
                ELSE Abort(got.out) /\ UNCHANGED raw_text
    /\ UNCHANGED <<entry, file_path, processor, openai_client,
                   responses, patient_info, medical_values, category, summary, requests, langVars>>

\* if len(raw_text.strip()) < 10: raise ValueError("No text extracted from document")
LengthGate ==
    /\ pc = "gate"
    /\ IF GateRejects(raw_text.v)
       THEN Abort(Raise("ValueError", msg_no_text))
       ELSE pc' = "extract_patient_info" /\ UNCHANGED <<raised, result>>
    /\ UNCHANGED <<entry, file_path, processor, openai_client, calls, doc, tesseract_text,
                   raw_text, responses, patient_info, medical_values, category, summary,
                   requests, imageVars, langVars>>

\* extract_patient_info called a second time when its service call failed
ExtractPatientInfoRetry ==
    /\ pc = "extract_patient_info"
    /\ requests' = [requests EXCEPT
                     !["extract_patient_info"] = Request("extract_patient_info", raw_text.v)]
    /\ \E r \in PatientResponses :
         LET out == extract_patient_info(raw_text.v, r)
         IN  /\ calls' = IF r.kind # "ok"
                         THEN calls \o <<"extract_patient_info", "extract_patient_info">>
                         ELSE Append(calls, "extract_patient_info")
             /\ responses' = [responses EXCEPT !["extract_patient_info"] = r]
             /\ patient_info' = out.value
             /\ pc' = "extract_medical_values"
    /\ UNCHANGED <<entry, file_path, processor, openai_client, doc, tesseract_text, raw_text,
                   medical_values, category, summary, raised, result, imageVars, langVars>>

\* patient_info = self.extractor.extract_patient_info(raw_text)
ExtractPatientInfo ==
    /\ pc = "extract_patient_info"
    /\ calls' = Append(calls, "extract_patient_info")
    /\ requests' = [requests EXCEPT
                     !["extract_patient_info"] = Request("extract_patient_info", raw_text.v)]
    /\ \E r \in PatientResponses :
         LET out == extract_patient_info(raw_text.v, r)
         IN  /\ responses' = [responses EXCEPT !["extract_patient_info"] = r]
             /\ IF out.ok
                THEN /\ patient_info' = out.value
                     /\ pc' = "extract_medical_values"
                     /\ UNCHANGED <<raised, result>>
                ELSE Abort(out) /\ UNCHANGED patient_info
    /\ UNCHANGED <<entry, file_path, processor, openai_client, doc, tesseract_text, raw_text,
                   medical_values, category, summary, imageVars, langVars>>

\* medical_values = self.extractor.extract_medical_values(raw_text)
ExtractMedicalValues ==
    /\ pc = "extract_medical_values"
    /\ calls' = Append(calls, "extract_medical_values")
    /\ requests' = [requests EXCEPT
                     !["extract_medical_values"] = Request("extract_medical_values", raw_text.v)]
    /\ \E r \in MedicalResponses :
         LET out == extract_medical_values(raw_text.v, r)
         IN  /\ responses' = [responses EXCEPT !["extract_medical_values"] = r]
             /\ IF out.ok
                THEN /\ medical_values' = out.value
                     /\ pc' = "categorize_document"
                     /\ UNCHANGED <<raised, result>>
                ELSE Abort(out) /\ UNCHANGED medical_values
    /\ UNCHANGED <<entry, file_path, processor, openai_client, doc, tesseract_text, raw_text,
                   patient_info, category, summary, imageVars, langVars>>

\* category = self.extractor.categorize_document(raw_text)
CategorizeDocument ==
    /\ pc = "categorize_document"
    /\ calls' = Append(calls, "categorize_document")
    /\ requests' = [requests EXCEPT
                     !["categorize_document"] = Request("categorize_document", raw_text.v)]
    /\ \E r \in CategoryResponses :
         LET out == categorize_document(raw_text.v, r)
         IN  /\ responses' = [responses EXCEPT !["categorize_document"] = r]
             /\ IF out.ok
                THEN /\ category' = PyStr(out.value)
                     /\ pc' = "generate_summary"
                     /\ UNCHANGED <<raised, result>>
                ELSE Abort(out) /\ UNCHANGED category
    /\ UNCHANGED <<entry, file_path, processor, openai_client, doc, tesseract_text, raw_text,
                   patient_info, medical_values, summary, imageVars, langVars>>

\* summary = self.extractor.generate_summary(raw_text)
GenerateSummary ==
    /\ pc = "generate_summary"
    /\ calls' = Append(calls, "generate_summary")
    /\ requests' = [requests EXCEPT
                     !["generate_summary"] = Request("generate_summary", raw_text.v)]
    /\ \E r \in SummaryResponses :
         LET out == generate_summary(raw_text.v, r)
         IN  /\ responses' = [responses EXCEPT !["generate_summary"] = r]
             /\ IF out.ok
                THEN /\ summary' = PyStr(out.value)
                     /\ pc' = "assemble"
                     /\ UNCHANGED <<raised, result>>
                ELSE Abort(out) /\ UNCHANGED summary
    /\ UNCHANGED <<entry, file_path, processor, openai_client, doc, tesseract_text, raw_text,
                   patient_info, medical_values, category, imageVars, langVars>>

\* metadata = DocumentMetadata(...); return ProcessedDocument(...); result.to_dict()
\* get_page_count opens the file again: it is readable or not at that moment
Assemble ==
    /\ pc = "assemble"
    /\ calls' = calls \o <<"get_file_type", "get_page_count">>
    /\ \E readable \in BOOLEAN :
         LET num_pages == get_page_count(processor, IF readable THEN doc ELSE Unreadable)
         IN  IF num_pages.ok
             THEN /\ result' = to_dict(DocumentMetadata(processor, category, Today,
                                                        num_pages.value, basename(file_path)),
                                       patient_info, medical_values, summary, raw_text)
                  /\ pc' = "done"
                  /\ UNCHANGED raised
             ELSE Abort(num_pages)
    /\ UNCHANGED <<entry, file_path, processor, openai_client, doc, tesseract_text, raw_text,
                   responses, patient_info, medical_values, category, summary,
                   requests, imageVars, langVars>>

Next ==
    \/ AnalyzeDocument
    \/ ImageExtractText
    \/ Validate
    \/ Create
    \/ ExtractText
    \/ LengthGate
    \/ ExtractPatientInfo
    \/ ExtractMedicalValues
    \/ CategorizeDocument
    \/ GenerateSummary
    \/ Assemble

Spec == Init /\ [][Next]_vars

----------------------------------------------------------------------------
(* _detect_language on texts built from words *)

w_le == <<"l", "e">>

w_La == <<"L", "a">>

w_ET == <<"E", "T">>

w_de == <<"d", "e">>

w_ox == <<"o", "x">>

MaxWords == 4

Vocab == {w_le, w_La, w_ET, w_de, w_ox}

Pads == {<<>>, <<" ">>, <<"\n">>}

\* one or two spaces between words
Seps == {<<" ">>, <<" ", " ">>}

RECURSIVE JoinWords(_, _)
\* s.join(ws)
JoinWords(s, ws) ==
    IF ws = <<>> THEN <<>>
    ELSE IF Len(ws) = 1 THEN Head(ws)
    ELSE Head(ws) \o s \o JoinWords(s, Tail(ws))

\* the text given to _detect_language
Text == lead \o JoinWords(sep, words) \o trail

LangInit ==
    /\ PipeInit
    /\ words \in UNION {[1..n -> Vocab] : n \in 0..MaxWords}
    /\ lead \in Pads
    /\ sep \in Seps
    /\ trail \in Pads
    /\ lang = "unset"

DetectLanguage ==
    /\ lang = "unset"
    /\ lang' = detect_language(Text)
    /\ UNCHANGED <<words, lead, sep, trail, pipeVars>>

NextLang == DetectLanguage

SpecLang == LangInit /\ [][NextLang]_vars

----------------------------------------------------------------------------
(* The AIExtractor prompts on texts around the truncation lengths *)

p_digits == <<"0", "1", "2", "3", "4", "5", "6", "7", "8", "9">>

p_fr == <<"l", "e", " ", "l", "a", " ", "e", "t", " ", "d", "e", " ">>

p_en == <<"P", "a", "t", "i", "e", "n", "t", " ", "s", "t", "a", "b", "l", "e", ".", " ">>

Patterns == {p_digits, p_fr, p_en}

\* the text of n characters that repeats pattern p
Fill(p, n) == [i \in 1..n |-> p[((i - 1) % Len(p)) + 1]]

TextLengths ==
    { 0, 1,
      CATEGORIZE_TEXT_LENGTH - 1, CATEGORIZE_TEXT_LENGTH, CATEGORIZE_TEXT_LENGTH + 1,
      MAX_TEXT_LENGTH - 1, MAX_TEXT_LENGTH, MAX_TEXT_LENGTH + 1, MAX_TEXT_LENGTH + 2 }

PromptTexts == {Fill(p, n) : p \in Patterns, n \in TextLengths}

\* an AIExtractor is about to be called with a text
PromptInit ==
    /\ pc = "prompt"
    /\ entry = "AIExtractor"
    /\ \E text \in PromptTexts : raw_text = PyStr(text)
    /\ file_path = <<>>
    /\ processor = "none"
    /\ openai_client = TRUE
    /\ calls = <<>>
    /\ doc = Unset
    /\ tesseract_text = Unset
    /\ ocr_texts = <<>>
    /\ vision_response = Unset
    /\ requests = [op \in ExtractionOps |-> NoRequest]
    /\ responses = [op \in ExtractionOps |-> NoResponse]
    /\ patient_info = Unset
    /\ medical_values = Unset
    /\ category = Unset
    /\ summary = Unset
    /\ raised = Unset
    /\ result = Unset
    /\ LangIdle

\* one of the four operations builds its prompt from the text
BuildPrompt ==
    /\ pc = "prompt"
    /\ \E op \in ExtractionOps :
         /\ requests' = [requests EXCEPT ![op] = Request(op, raw_text.v)]
         /\ calls' = Append(calls, op)
    /\ pc' = "prompted"
    /\ UNCHANGED <<entry, file_path, processor, openai_client, doc, tesseract_text, raw_text,
                   responses, patient_info, medical_values, category, summary, raised,
                   result, imageVars, langVars>>

NextPrompt == BuildPrompt

SpecPrompt == PromptInit /\ [][NextPrompt]_vars

----------------------------------------------------------------------------
(* Properties *)

\* how many times call c was made
Count(c) == Cardinality({i \in DOMAIN calls : calls[i] = c})

Called(op) == responses[op] # NoResponse

\* the service call raised
ServiceRaised(r) == r.kind \in {"APIError", "APITimeoutError"}

\* the response carries no payload
PayloadMissing(r) == r.kind = "ok" /\ r.content.c = "none"

\* the payload is not valid JSON
PayloadMalformed(r) == r.kind = "ok" /\ r.content.c = "bad_json"

\* a failure of the text-generation call, for a JSON-mode and for a free-text operation
JsonCallFailed(r) == ServiceRaised(r) \/ PayloadMissing(r) \/ PayloadMalformed(r)

TextCallFailed(r) == ServiceRaised(r) \/ PayloadMissing(r)

\* process() has returned a ProcessedDocument and analyze_document its dictionary
Succeeded == pc = "done" /\ entry = "analyze_document" /\ raised = Unset /\ result # Unset

\* the language of the raw text, for the states where an extraction operation ran
RawLang == detect_language(raw_text.v)

\* C1: each extraction operation is fail-soft: whenever its service call fails
\* (exception, timeout, missing payload, malformed JSON) it returns its default
\* (all-null PatientInfo, empty mapping, "Other"/"Autre" by detected language,
\* the fixed localized failure string), and an operation that was called has
\* always returned a value, never raised.
C1_FailSoft ==
    /\ Called("extract_patient_info") =>
         /\ patient_info # Unset
         /\ JsonCallFailed(responses["extract_patient_info"]) =>
              patient_info = [name |-> PyNone, date_of_birth |-> PyNone, address |-> PyNone]
    /\ Called("extract_medical_values") =>
         /\ medical_values # Unset
         /\ JsonCallFailed(responses["extract_medical_values"]) =>
              medical_values = PyDict(<<>>)
    /\ Called("categorize_document") =>
         /\ category # Unset
         /\ TextCallFailed(responses["categorize_document"]) =>
              /\ RawLang = "en" => category = PyStr(Other)
              /\ RawLang = "fr" => category = PyStr(Autre)
    /\ Called("generate_summary") =>
         /\ summary # Unset
         /\ TextCallFailed(responses["generate_summary"]) =>
              /\ RawLang = "en" => summary = PyStr(SummaryFailedEn)
              /\ RawLang = "fr" => summary = PyStr(SummaryFailedFr)
    /\ (\E op \in ExtractionOps : Called(op)) /\ raised # Unset =>
         raised.type \in {"PdfReadError", "PackageNotFoundError"}

\* a French document on which all four service calls failed, still processed
C1_Witness ==
    /\ Succeeded
    /\ RawLang = "fr"
    /\ PayloadMalformed(responses["extract_patient_info"])
    /\ PayloadMissing(responses["extract_medical_values"])
    /\ ServiceRaised(responses["categorize_document"])
    /\ responses["generate_summary"] = ServiceTimeout
    /\ result.summary = PyStr(SummaryFailedFr)

\* C2: when the adapter's raw text, stripped, is shorter than 10 characters,
\* process() fails with ValueError("No text extracted from document"),
\* analyze_document returns the error result, and no extraction operation is
\* called at any point of the run.
C2_InsufficientText ==
    (entry = "analyze_document" /\ raw_text # Unset /\ Len(strip(raw_text.v)) < 10) =>
        /\ \A op \in ExtractionOps : ~Called(op) /\ Count(op) = 0
        /\ pc \in {"gate", "done"}
        /\ pc = "done" =>
             /\ raised = Raise("ValueError", msg_no_text)
             /\ result = [error |-> TRUE, message |-> msg_no_text,
                          file_name |-> basename(file_path)]

\* a PDF whose text has 9 characters, rejected
C2_Witness ==
    /\ pc = "done"
    /\ processor = "pdf"
    /\ raw_text # Unset
    /\ Len(strip(raw_text.v)) = 9
    /\ "error" \in DOMAIN result

\* C3: every pipeline abort happens before any extraction call: a run in
\* which an extraction operation was called never ends in a pipeline error.
C3_NoAbortAfterExtraction ==
    (\E op \in ExtractionOps : Called(op)) => raised = Unset

\* C4: analyze_document always returns a record: the full success shape, or
\* exactly the error shape (error = TRUE, a message, the file name of the
\* path), and the 'error' key tells the two apart.
C4_AlwaysARecord ==
    (pc = "done" /\ entry = "analyze_document") =>
        /\ result # Unset
        /\ raised = Unset =>
             DOMAIN result =
                 {"metadata", "patient_info", "extracted_values", "summary", "raw_text"}
        /\ raised # Unset =>
             /\ DOMAIN result = {"error", "message", "file_name"}
             /\ result.error = TRUE
             /\ result.message = raised.message
             /\ "/" \notin {result.file_name[i] : i \in DOMAIN result.file_name}
             /\ LET cut == Len(file_path) - Len(result.file_name)
                IN  /\ cut >= 0
                    /\ SubSeq(file_path, cut + 1, Len(file_path)) = result.file_name
                    /\ cut > 0 => file_path[cut] = "/"

\* an unreadable PDF under a directory: the error result names the file only
C4_Witness ==
    /\ pc = "done"
    /\ entry = "analyze_document"
    /\ raised # Unset
    /\ raised.type = "PdfReadError"
    /\ file_path = path_pdf
    /\ result.error

\* the image adapter's extract_text has returned
ImageReturned == processor = "image" /\ raw_text # Unset

\* local OCR raised, or gave at most 50 characters
LocalRejected == tesseract_text = Unset \/ Len(strip(tesseract_text.v)) <= 50

\* C5 as stated: whenever local OCR is rejected the vision extraction is
\* attempted exactly once, for every ImageProcessor, also one without a client.
C5_Original ==
    (ImageReturned /\ LocalRejected) => Count("_extract_with_vision") = 1

\* C5, amended: whenever local OCR is rejected, an ImageProcessor with a
\* service client attempts the vision extraction exactly once, and one
\* without a client attempts it zero times and returns the empty text.
C5_VisionOnceWithClient ==
    (ImageReturned /\ LocalRejected) =>
        /\ openai_client => Count("_extract_with_vision") = 1
        /\ ~openai_client => Count("_extract_with_vision") = 0 /\ raw_text = PyStr(<<>>)

\* local OCR gave exactly 50 characters and the vision extraction ran once
C5_Witness ==
    /\ ImageReturned
    /\ tesseract_text # Unset
    /\ Len(tesseract_text.v) = 50
    /\ openai_client
    /\ Count("_extract_with_vision") = 1

\* C6: whenever local OCR gives more than 50 characters, that text is the
\* result of extract_text and the vision service is not invoked.
C6_LocalAccepted ==
    (ImageReturned /\ tesseract_text # Unset /\ Len(strip(tesseract_text.v)) > 50) =>
        /\ raw_text = tesseract_text
        /\ Count("_extract_with_vision") = 0

\* local OCR gave 51 characters, returned as they are
C6_Witness ==
    /\ ImageReturned
    /\ tesseract_text # Unset
    /\ Len(tesseract_text.v) = 51
    /\ raw_text = tesseract_text

ext_txt == <<".", "t", "x", "t">>

ext_gz == <<".", "g", "z">>

\* os.path.splitext(path)[1].lower() of each path, as CPython computes it
ExtOf(path) ==
    CASE path \in {path_pdf, path_PDF} -> ext_pdf
      [] path = path_docx -> ext_docx
      [] path = path_doc -> ext_doc
      [] path = path_jpg -> ext_jpg
      [] path = path_JPEG -> ext_jpeg
      [] path = path_png -> ext_png
      [] path = path_txt -> ext_txt
      [] path = path_gz -> ext_gz
      [] OTHER -> <<>>

\* adapter selection has run
Selected == entry = "analyze_document" /\ Count("ProcessorFactory.create") = 1

\* the path was rejected as unsupported, before any adapter existed or ran
Unsupported(ext) ==
    /\ processor = "none"
    /\ calls = <<"os.path.exists", "ProcessorFactory.create">>
    /\ pc = "done"
    /\ raised = Raise("ValueError", msg_unsupported \o ext)
    /\ result = [error |-> TRUE, message |-> msg_unsupported \o ext,
                 file_name |-> basename(file_path)]

\* C7 as stated: .pdf selects the PDF adapter, .docx the DOCX adapter,
\* .jpg/.jpeg/.png the image adapter, and every other extension is rejected
\* as unsupported with no adapter constructed or invoked.
C7_Original ==
    Selected =>
        LET ext == ExtOf(file_path)
        IN  /\ ext = ext_pdf => processor = "pdf"
            /\ ext = ext_docx => processor = "docx"
            /\ ext \in {ext_jpg, ext_jpeg, ext_png} => processor = "image"
            /\ ext \notin {ext_pdf, ext_docx, ext_jpg, ext_jpeg, ext_png} => Unsupported(ext)

\* C7, amended: for an existing file, .pdf selects the PDF adapter, .docx and
\* .doc the DOCX adapter, .jpg/.jpeg/.png the image adapter (case-insensitive),
\* and every other extension, also none, is rejected as unsupported, carrying
\* the extension, with no adapter constructed or invoked.
C7_AdapterSelection ==
    Selected =>
        LET ext == ExtOf(file_path)
        IN  /\ ext = ext_pdf => processor = "pdf"
            /\ ext \in {ext_docx, ext_doc} => processor = "docx"
            /\ ext \in {ext_jpg, ext_jpeg, ext_png} => processor = "image"
            /\ ext \notin {ext_pdf, ext_docx, ext_doc, ext_jpg, ext_jpeg, ext_png} =>
                 Unsupported(ext)

\* an existing .txt file, rejected with its extension in the message
C7_Witness ==
    /\ Selected
    /\ file_path = path_txt
    /\ raised = Raise("ValueError", msg_unsupported \o ext_txt)

\* C9: the category of every ProcessedDocument is one of the six labels of
\* the language detected for the raw text.
C9_CategoryInLabels ==
    Succeeded => result.metadata.category.v \in CategoryLabels(RawLang)

\* C10: extract_medical_values always returns a mapping from a label to a
\* value string.
C10_ValuesAreMapping ==
    medical_values # Unset =>
        /\ medical_values.t = "dict"
        /\ \A k \in DOMAIN medical_values.items : medical_values.items[k].t = "str"

----------------------------------------------------------------------------
(* Properties of _detect_language *)

\* word i of the text has a space on both sides
Bounded(i) ==
    /\ i > 1 \/ lead = <<" ">>
    /\ i < Len(words) \/ trail = <<" ">>

\* the marker word a vocabulary word is, ignoring case ("" when it is none)
MarkerOf(w) ==
    CASE w = w_le -> "le"
      [] w = w_La -> "la"
      [] w = w_ET -> "et"
      [] w = w_de -> "de"
      [] OTHER -> ""

\* the positions holding a space-bounded marker word
MarkerPositions == {i \in DOMAIN words : Bounded(i) /\ MarkerOf(words[i]) # ""}

RECURSIVE StrCount(_, _)
\* str.count(sub): the occurrences of sub in s, left to right without overlap
StrCount(s, sub) ==
    IF Len(s) < Len(sub) THEN 0
    ELSE IF SubSeq(s, 1, Len(sub)) = sub
         THEN 1 + StrCount(SubSeq(s, Len(sub) + 1, Len(s)), sub)
         ELSE StrCount(Tail(s), sub)

RECURSIVE SumCounts(_, _)
SumCounts(s, markers) ==
    IF markers = <<>> THEN 0
    ELSE StrCount(s, <<" ">> \o Head(markers) \o <<" ">>) + SumCounts(s, Tail(markers))

\* the number of space-bounded occurrences of marker words in the lowercased text
Occurrences == SumCounts(lower(Text), french_indicators)

\* C8 as stated: the text is French exactly when the number of space-bounded
\* occurrences of marker words exceeds 3; the same marker four times is French.
C8_Original ==
    lang \in {"fr", "en"} =>
        /\ lang = "fr" <=> Occurrences > 3
        /\ (Cardinality(MarkerPositions) >= 4
            /\ \A i, j \in MarkerPositions : MarkerOf(words[i]) = MarkerOf(words[j]))
           => lang = "fr"

\* C8, amended: the text is French exactly when more than 3 distinct marker
\* words occur in the lowercased text bounded by a space on both sides, and
\* English otherwise; repeating one marker word adds nothing.
C8_DistinctMarkers ==
    lang \in {"fr", "en"} =>
        (lang = "fr" <=> Cardinality({MarkerOf(words[i]) : i \in MarkerPositions}) > 3)

\* four different marker words, two of them in upper case, give French
C8_Witness ==
    /\ lang = "fr"
    /\ Cardinality({MarkerOf(words[i]) : i \in MarkerPositions}) = 4
    /\ Len(words) = 4

----------------------------------------------------------------------------
(* Properties of the records the pipeline returns *)

\* the payload of the response is a JSON object
IsJsonObject(r) == r.kind = "ok" /\ r.content.c = "json" /\ r.content.value.t = "dict"

\* C11: in every PatientInfo extract_patient_info returns, each of name,
\* date_of_birth and address is null or a non-empty string, never the empty
\* string, whatever JSON object the service returned; a key missing from the
\* object gives null for that field, and extra keys are ignored.
C11_PatientFieldsNullOrNonEmpty ==
    patient_info # Unset =>
        /\ DOMAIN patient_info = {"name", "date_of_birth", "address"}
        /\ \A f \in DOMAIN patient_info :
              \/ patient_info[f] = PyNone
              \/ patient_info[f].t = "str" /\ patient_info[f].v # <<>>
        /\ IsJsonObject(responses["extract_patient_info"]) =>
              \A f \in DOMAIN patient_info :
                  f \notin DOMAIN responses["extract_patient_info"].content.value.items =>
                      patient_info[f] = PyNone

\* the number of characters of s that are not whitespace
NonWhitespace(s) == Cardinality({i \in 1..Len(s) : ~IsSpace(s[i])})

\* C12 as stated: every ProcessedDocument has a raw_text with at least 10
\* non-whitespace characters, and a raw text with fewer never reaches the
\* extractor.
C12_Original ==
    /\ Succeeded => NonWhitespace(result.raw_text.v) >= 10
    /\ (\E op \in ExtractionOps : Called(op)) => NonWhitespace(raw_text.v) >= 10

\* C12, amended: every ProcessedDocument has a raw_text whose length after
\* stripping leading and trailing whitespace is at least 10, interior
\* whitespace counted, and a raw text whose stripped length is below 10 never
\* reaches the extractor.
C12_StrippedLength ==
    /\ Succeeded => Len(strip(result.raw_text.v)) >= 10
    /\ (\E op \in ExtractionOps : Called(op)) => Len(strip(raw_text.v)) >= 10

\* a processed document whose 11 characters hold only 6 that are not whitespace
C12_Witness ==
    /\ Succeeded
    /\ Len(result.raw_text.v) = 11
    /\ NonWhitespace(result.raw_text.v) = 6

----------------------------------------------------------------------------
(* Properties of the order of the stages *)

\* the stages of DocumentProcessor.process that are calls, in the order of the code
StageOrder ==
    <<"os.path.exists", "ProcessorFactory.create", "extract_text",
      "extract_patient_info", "extract_medical_values", "categorize_document",
      "generate_summary", "get_file_type", "get_page_count">>

IsStage(c) == \E i \in DOMAIN StageOrder : StageOrder[i] = c

\* the stage calls made so far, without the calls the image adapter made inside
Stages == SelectSeq(calls, IsStage)

\* the raw text passed the length gate
GatePassed == raw_text # Unset /\ Len(strip(raw_text.v)) >= 10

\* C13: process() runs existence check, adapter selection, text extraction,
\* length gate, the four extraction operations and assembly in that order: a
\* missing path fails with FileNotFoundError before the extension is looked
\* at; an extraction operation runs only after the gate passed; and on a run
\* that passed the gate each of the four operations is called exactly once,
\* with the same raw text, whatever the other operations' service calls did.
C13_StageOrder ==
    entry = "analyze_document" =>
        /\ Len(Stages) <= Len(StageOrder)
        /\ Stages = SubSeq(StageOrder, 1, Len(Stages))
        /\ (raised # Unset /\ raised.type = "FileNotFoundError") =>
              calls = <<"os.path.exists">> /\ processor = "none"
        /\ \A op \in ExtractionOps :
              Count(op) >= 1 =>
                  /\ GatePassed
                  /\ Count(op) = 1
                  /\ requests[op] # NoRequest
                  /\ requests[op].text = raw_text.v
        /\ (pc \in {"assemble", "done"} /\ GatePassed) =>
              \A op \in ExtractionOps : Count(op) = 1 /\ Called(op)
        /\ Succeeded => result.raw_text = raw_text /\ Len(Stages) = Len(StageOrder)

\* a run on which the first and the third service call failed and all four
\* operations ran once, in order, before assembly
C13_Witness ==
    /\ Succeeded
    /\ responses["extract_patient_info"] = ServiceError
    /\ responses["categorize_document"] = ServiceTimeout
    /\ responses["extract_medical_values"].kind = "ok"
    /\ responses["generate_summary"].kind = "ok"
    /\ Stages = StageOrder

----------------------------------------------------------------------------
(* Properties of the image adapter *)

\* the vision extraction ran and the service answered with text
VisionGaveText ==
    /\ vision_response # Unset
    /\ vision_response.kind = "ok"
    /\ vision_response.content.c = "text"

\* the length, after stripping, of the text local OCR gave (-1 when it raised)
LocalLength == IF tesseract_text = Unset THEN -1 ELSE Len(strip(tesseract_text.v))

\* C14: ImageProcessor.extract_text always returns, and what it returns is the
\* local OCR text when that is longer than 50 characters, else the vision
\* service's text, else the empty string; local text of 1 to 50 characters is
\* never returned, so with the vision extraction failed or no client the
\* result is empty although local text exists, and a document whose local
\* text has 10 to 50 characters then fails with "No text extracted from
\* document".
C14_ImageResult ==
    (processor = "image" /\ Count("extract_text") = 1) =>
        /\ raw_text # Unset
        /\ \/ LocalLength > 50 /\ raw_text = tesseract_text
           \/ VisionGaveText /\ raw_text.v = strip(vision_response.content.s)
           \/ raw_text.v = <<>>
        /\ LocalLength \in 1..50 =>
              /\ raw_text # tesseract_text
              /\ ~VisionGaveText => raw_text.v = <<>>
        /\ (LocalLength \in 10..50 /\ ~VisionGaveText /\ pc = "done"
            /\ entry = "analyze_document") =>
              /\ raised = Raise("ValueError", msg_no_text)
              /\ \A op \in ExtractionOps : ~Called(op)

\* an image whose local OCR text has 20 characters and whose vision call
\* failed: empty text from the adapter, and the pipeline rejects the document
C14_Witness ==
    /\ pc = "done"
    /\ entry = "analyze_document"
    /\ processor = "image"
    /\ LocalLength = 20
    /\ vision_response = ServiceError
    /\ raw_text = PyStr(<<>>)
    /\ raised = Raise("ValueError", msg_no_text)

c_image_open == "Image.open"

c_ocr_combined == "image_to_string(fra+eng)"

c_ocr_eng == "image_to_string(eng)"

c_ocr_default == "image_to_string()"

c_vision == "_extract_with_vision"

\* the calls the image adapter made inside extract_text, in order
ImageCalls ==
    SelectSeq(calls, LAMBDA c : c \in {c_image_open, c_ocr_combined, c_ocr_eng,
                                        c_ocr_default, c_vision})

\* the local OCR attempts made, in order
OcrCalls == SelectSeq(calls, LAMBDA c : c \in {c_ocr_combined, c_ocr_eng, c_ocr_default})

\* the image adapter's calls are the opening of the image, the OCR attempts,
\* then the vision extraction if it ran
LocalBeforeVision ==
    ImageCalls = <<c_image_open>> \o OcrCalls
                 \o (IF Count(c_vision) = 0 THEN <<>> ELSE <<c_vision>>)

\* the first attempt returned text shorter than 20 characters after stripping
FirstShort ==
    /\ Len(ocr_texts) >= 1
    /\ ocr_texts[1].kind = "text"
    /\ Len(strip(ocr_texts[1].s)) < 20

\* the combined-pack or the English-only attempt raised
EarlierRaised ==
    \E i \in DOMAIN ocr_texts :
        ocr_texts[i].kind = "raise" /\ OcrCalls[i] \in {c_ocr_combined, c_ocr_eng}

\* C15 as stated: local OCR runs before any vision call, the first attempt
\* uses the combined pack, an English-only attempt is made exactly when the
\* first attempt's stripped text is shorter than 20 characters, and there are
\* never more than two local attempts in one extract_text call.
C15_Original ==
    (processor = "image" /\ Count("extract_text") = 1) =>
        /\ LocalBeforeVision
        /\ Len(OcrCalls) = Len(ocr_texts)
        /\ Len(OcrCalls) >= 1 => OcrCalls[1] = c_ocr_combined
        /\ Count(c_ocr_eng) = (IF FirstShort THEN 1 ELSE 0)
        /\ Count(c_ocr_eng) = 1 => OcrCalls[2] = c_ocr_eng
        /\ Len(OcrCalls) <= 2

\* C15, amended: _extract_with_tesseract (opening the image, then local OCR)
\* runs before any vision call; the first attempt uses the combined pack; an
\* English-only attempt follows exactly when the first attempt returned text
\* whose stripped length is below 20; one more attempt, with the default
\* language, follows exactly when the combined or the English-only attempt
\* raised; there are never more than three local attempts.
C15_OcrOrder ==
    (processor = "image" /\ Count("extract_text") = 1) =>
        /\ LocalBeforeVision
        /\ Len(OcrCalls) = Len(ocr_texts)
        /\ Len(OcrCalls) >= 1 => OcrCalls[1] = c_ocr_combined
        /\ Count(c_ocr_eng) = (IF FirstShort THEN 1 ELSE 0)
        /\ Count(c_ocr_eng) = 1 => OcrCalls[2] = c_ocr_eng
        /\ Count(c_ocr_default) = (IF EarlierRaised THEN 1 ELSE 0)
        /\ Count(c_ocr_default) = 1 => OcrCalls[Len(OcrCalls)] = c_ocr_default
        /\ Count(c_ocr_combined) <= 1
        /\ Len(OcrCalls) <= 3

\* a short combined result, a failed English retry, then the default-language
\* attempt, and only then the vision extraction
C15_Witness ==
    /\ processor = "image"
    /\ ImageCalls = <<c_image_open, c_ocr_combined, c_ocr_eng, c_ocr_default, c_vision>>
    /\ FirstShort
    /\ ocr_texts[2].kind = "raise"
    /\ ocr_texts[3].kind = "text"

----------------------------------------------------------------------------
(* Properties of the prompts *)

\* C16: each of the four extraction calls embeds in its prompt exactly the
\* first min(len(text), Config.MAX_TEXT_LENGTH) characters of the text it was
\* given: the same budget for all four, and nothing beyond it is sent.
C16_PromptBudget ==
    \A op \in ExtractionOps :
        requests[op] # NoRequest =>
            LET text == requests[op].text
                embedded == requests[op].embedded
            IN  /\ Len(embedded) = IF Len(text) < MAX_TEXT_LENGTH
                                   THEN Len(text) ELSE MAX_TEXT_LENGTH
                /\ \A i \in 1..Len(embedded) : embedded[i] = text[i]

====
